---- MODULE Spec2Model ----
(***************************************************************************)
(* Model of demo-ui/app.py of contract-ledger: the sequence-number         *)
(* extraction of the register steps, the output formatter, the process    *)
(* runner, the workflow step handlers with their artifact checks, the      *)
(* session registry and the GitHub device-authorization routine.           *)
(*                                                                         *)
(* Texts are sequences of one-character strings, so that the regular       *)
(* expressions of the source are computed character by character.          *)
(***************************************************************************)
EXTENDS Integers, Sequences, FiniteSets, TLC

VARIABLES
    \* ---- register handler seen as a function of the command's result
    ex_pc, ex_stdout, ex_stderr, ex_output, ex_pattern, ex_seq,
    \* ---- run_command: one call, the shell it starts and what the shell starts
    rn_pc, rn_cmd, rn_elapsed, rn_shell, rn_exit, rn_desc, rn_result,
    \* ---- the session registry, the artifacts under /tmp and the last request
    sessions, wf_now, wf_cose, wf_did, wf_req, wf_resp, wf_ran,
    \* ---- github_login_device: the routine, its child and the child's stdout
    dv_pc, dv_now, dv_start, dv_child, dv_closed, dv_written, dv_pipe, dv_rbuf,
    dv_line, dv_output_lines, dv_device_code, dv_resp

exVars == <<ex_pc, ex_stdout, ex_stderr, ex_output, ex_pattern, ex_seq>>
rnVars == <<rn_pc, rn_cmd, rn_elapsed, rn_shell, rn_exit, rn_desc, rn_result>>
wfVars == <<sessions, wf_now, wf_cose, wf_did, wf_req, wf_resp, wf_ran>>
dvVars == <<dv_pc, dv_now, dv_start, dv_child, dv_closed, dv_written, dv_pipe,
           dv_rbuf, dv_line, dv_output_lines, dv_device_code, dv_resp>>
vars == <<exVars, rnVars, wfVars, dvVars>>

\* Python's None where an integer is expected (sequence numbers are never negative)
None == -1
\* re.search found no match (group 1 of a match is never empty)
NoMatch == <<>>

(***************************************************************************)
(* Characters and character classes of Python's re (ASCII subset).         *)
(***************************************************************************)
Digits == {"0", "1", "2", "3", "4", "5", "6", "7", "8", "9"}
UpperLetters == {"A", "B", "C", "D", "E", "F", "G", "H", "I", "J", "K", "L", "M",
                 "N", "O", "P", "Q", "R", "S", "T", "U", "V", "W", "X", "Y", "Z"}
LowerLetters == {"a", "b", "c", "d", "e", "f", "g", "h", "i", "j", "k", "l", "m",
                 "n", "o", "p", "q", "r", "s", "t", "u", "v", "w", "x", "y", "z"}
LowerOf == [c \in UpperLetters |->
              CASE c = "A" -> "a" [] c = "B" -> "b" [] c = "C" -> "c" [] c = "D" -> "d"
                [] c = "E" -> "e" [] c = "F" -> "f" [] c = "G" -> "g" [] c = "H" -> "h"
                [] c = "I" -> "i" [] c = "J" -> "j" [] c = "K" -> "k" [] c = "L" -> "l"
                [] c = "M" -> "m" [] c = "N" -> "n" [] c = "O" -> "o" [] c = "P" -> "p"
                [] c = "Q" -> "q" [] c = "R" -> "r" [] c = "S" -> "s" [] c = "T" -> "t"
                [] c = "U" -> "u" [] c = "V" -> "v" [] c = "W" -> "w" [] c = "X" -> "x"
                [] c = "Y" -> "y" [] c = "Z" -> "z"]

\* str.lower() on one character, and re.IGNORECASE folding
Lower(c) == IF c \in UpperLetters THEN LowerOf[c] ELSE c
\* \d
IsDigit(c) == c \in Digits
\* \s  (space, newline, tab, carriage return)
SpaceChars == {" ", "\n", "\t", "\r"}
IsSpace(c) == c \in SpaceChars
\* \w
WordChars == Digits \cup UpperLetters \cup LowerLetters \cup {"_"}
IsWord(c) == c \in WordChars
\* [:\s]
IsSep(c) == c = ":" \/ IsSpace(c)

DigitValue == [c \in Digits |->
                 CASE c = "0" -> 0 [] c = "1" -> 1 [] c = "2" -> 2 [] c = "3" -> 3
                   [] c = "4" -> 4 [] c = "5" -> 5 [] c = "6" -> 6 [] c = "7" -> 7
                   [] c = "8" -> 8 [] c = "9" -> 9]

\* int(s) for a string of digits
RECURSIVE ToInt(_)
ToInt(s) == IF s = <<>> THEN 0
            ELSE 10 * ToInt(SubSeq(s, 1, Len(s) - 1)) + DigitValue[s[Len(s)]]

\* s[i:j+1] as a sequence (empty when j < i)
Slice(s, i, j) == IF j < i THEN <<>> ELSE SubSeq(s, i, j)

\* the literal lit (given in lower case) occurs in t at position i, ignoring case
LitAt(t, i, lit) ==
    /\ i >= 1
    /\ i + Len(lit) - 1 <= Len(t)
    /\ \A k \in 1..Len(lit) : Lower(t[i + k - 1]) = lit[k]

\* end of the maximal run of digits that starts at i (i - 1 when t[i] is no digit)
DigitRunEnd(t, i) ==
    LET stops == {j \in i..Len(t) : ~IsDigit(t[j])}
    IN  IF stops = {} THEN Len(t)
        ELSE (CHOOSE j \in stops : \A k \in stops : j <= k) - 1

\* position of the first digit at or after p (0 when there is none)
FirstDigitFrom(t, p) ==
    LET ds == {j \in p..Len(t) : IsDigit(t[j])}
    IN  IF ds = {} THEN 0 ELSE CHOOSE j \in ds : \A k \in ds : j <= k

\* the least element of a non-empty set of positions
MinOf(S) == CHOOSE i \in S : \A k \in S : i <= k

(***************************************************************************)
(* The six patterns of the register steps (app.py 352-359, 513-520), each  *)
(* searched with re.search(pattern, output, re.IGNORECASE): the result is  *)
(* the text of group 1 of the leftmost match, or NoMatch.                   *)
(***************************************************************************)
S_cose == <<".", "c", "o", "s", "e">>
S_sequence == <<"s", "e", "q", "u", "e", "n", "c", "e">>
S_number == <<"n", "u", "m", "b", "e", "r">>
S_no == <<"n", "o">>
S_entry == <<"e", "n", "t", "r", "y">>
S_seqno == <<"s", "e", "q", "n", "o">>
S_submitted == <<"s", "u", "b", "m", "i", "t", "t", "e", "d">>

\* group 1 of a match whose digits start at q: \d+ is greedy
Group1(t, q) == Slice(t, q, DigitRunEnd(t, q))

\* r'\.(\d+)\.cose' matches at i
Pattern1At(t, i) ==
    /\ t[i] = "."
    /\ i + 1 <= Len(t)
    /\ IsDigit(t[i + 1])
    /\ LitAt(t, DigitRunEnd(t, i + 1) + 1, S_cose)

Pattern1(t) ==
    LET at == {i \in 1..Len(t) : Pattern1At(t, i)}
    IN  IF at = {} THEN NoMatch ELSE Group1(t, MinOf(at) + 1)

\* seg is in the language of  \s*(?:number|no)?[:\s]+
InSequenceGap(seg) ==
    \E a \in 0..Len(seg) : \E opt \in {<<>>, S_number, S_no} :
        /\ \A k \in 1..a : IsSpace(seg[k])
        /\ LitAt(seg, a + 1, opt)
        /\ a + Len(opt) < Len(seg)
        /\ \A k \in (a + Len(opt) + 1)..Len(seg) : IsSep(seg[k])

\* r'[Ss]equence\s*(?:number|no)?[:\s]+(\d+)' matches at i; the digits start
\* at the first digit after the keyword, nothing before them being a digit
Pattern2At(t, i) ==
    /\ LitAt(t, i, S_sequence)
    /\ LET q == FirstDigitFrom(t, i + Len(S_sequence))
       IN  q > 0 /\ InSequenceGap(Slice(t, i + Len(S_sequence), q - 1))

Pattern2(t) ==
    LET at == {i \in 1..Len(t) : Pattern2At(t, i)}
    IN  IF at = {} THEN NoMatch
        ELSE Group1(t, FirstDigitFrom(t, MinOf(at) + Len(S_sequence)))

\* keyword, then [:\s]+, then (\d+), matching at i
KeywordSepAt(t, i, kw) ==
    /\ LitAt(t, i, kw)
    /\ LET q == FirstDigitFrom(t, i + Len(kw))
       IN  /\ q > i + Len(kw)
           /\ \A k \in (i + Len(kw))..(q - 1) : IsSep(t[k])

KeywordSep(t, kw) ==
    LET at == {i \in 1..Len(t) : KeywordSepAt(t, i, kw)}
    IN  IF at = {} THEN NoMatch
        ELSE Group1(t, FirstDigitFrom(t, MinOf(at) + Len(kw)))

\* r'[Ee]ntry[:\s]+(\d+)'
Pattern3(t) == KeywordSep(t, S_entry)

\* r'seqno[:\s]+(\d+)'
Pattern4(t) == KeywordSep(t, S_seqno)

\* r'submitted.*?(\d+)' matches at i: '.' matches anything but a newline
Pattern5At(t, i) ==
    /\ LitAt(t, i, S_submitted)
    /\ LET q == FirstDigitFrom(t, i + Len(S_submitted))
       IN  /\ q > 0
           /\ \A k \in (i + Len(S_submitted))..(q - 1) : t[k] # "\n"

Pattern5(t) ==
    LET at == {i \in 1..Len(t) : Pattern5At(t, i)}
    IN  IF at = {} THEN NoMatch
        ELSE Group1(t, FirstDigitFrom(t, MinOf(at) + Len(S_submitted)))

\* a word boundary \b lies before position i (1..Len(t)+1)
WordBoundary(t, i) ==
    LET before == i > 1 /\ IsWord(t[i - 1])
        after == i <= Len(t) /\ IsWord(t[i])
    IN  before # after

\* the fallback asking for three digits or more
Pattern6AtThreeDigits(t, i) ==
    /\ IsDigit(t[i])
    /\ WordBoundary(t, i)
    /\ DigitRunEnd(t, i) - i + 1 >= 3
    /\ WordBoundary(t, DigitRunEnd(t, i) + 1)

\* the fallback taking a single digit too
Pattern6AtAnyDigits(t, i) ==
    /\ IsDigit(t[i])
    /\ WordBoundary(t, i)
    /\ DigitRunEnd(t, i) - i + 1 >= 1
    /\ WordBoundary(t, DigitRunEnd(t, i) + 1)

\* r'\b(\d{2,})\b' matches at i
Pattern6At(t, i) ==
    /\ IsDigit(t[i])
    /\ WordBoundary(t, i)
    /\ DigitRunEnd(t, i) - i + 1 >= 2
    /\ WordBoundary(t, DigitRunEnd(t, i) + 1)

Pattern6(t) ==
    LET at == {i \in 1..Len(t) : Pattern6At(t, i)}
    IN  IF at = {} THEN NoMatch ELSE Group1(t, MinOf(at))

\* the list `patterns`, applied to the output
NumPatterns == 6
PatternMatch(t, k) ==
    CASE k = 1 -> Pattern1(t)
      [] k = 2 -> Pattern2(t)
      [] k = 3 -> Pattern3(t)
      [] k = 4 -> Pattern4(t)
      [] k = 5 -> Pattern5(t)
      [] k = 6 -> Pattern6(t)

\* the threshold of line 366
MinCandidate == 10

\* the test of line 366 without its threshold
AcceptAnyCandidate(k, candidate) == k \in 1..NumPatterns

\* line 366: `if pattern == r'\b(\d{2,})\b' or candidate >= 10`
AcceptCandidate(k, candidate) == k = NumPatterns \/ candidate >= MinCandidate

\* the loop of lines 361-368, from pattern k on: the pattern whose candidate
\* was taken and seq_no (pattern 0 and None when the loop ends without one)
RECURSIVE ExtractLoop(_, _)
ExtractLoop(t, k) ==
    IF k > NumPatterns THEN [pattern |-> 0, seq_no |-> None]
    ELSE LET g == PatternMatch(t, k)
         IN  IF g # NoMatch /\ AcceptCandidate(k, ToInt(g))
             THEN [pattern |-> k, seq_no |-> ToInt(g)]
             ELSE ExtractLoop(t, k + 1)

ExtractSeqNo(t) == ExtractLoop(t, 1).seq_no

(***************************************************************************)
(* format_output (app.py 274-283).                                         *)
(***************************************************************************)
\* str.strip()
RECURSIVE LStrip(_)
LStrip(s) == IF s # <<>> /\ IsSpace(s[1]) THEN LStrip(Tail(s)) ELSE s
RECURSIVE RStrip(_)
RStrip(s) == IF s # <<>> /\ IsSpace(s[Len(s)])
             THEN RStrip(SubSeq(s, 1, Len(s) - 1)) ELSE s
Strip(s) == RStrip(LStrip(s))

\* "\n\n--- Debug/Trace Output ---\n"
Separator == <<"\n", "\n", "-", "-", "-", " ", "D", "e", "b", "u", "g", "/", "T", "r", "a", "c", "e", " ", "O", "u", "t", "p", "u", "t", " ", "-", "-", "-", "\n">>

\* a formatter that would write the separator whenever stderr is not empty
format_output_always_separated(stdout, stderr) ==
    LET output == IF stdout # <<>> THEN Strip(stdout) ELSE <<>>
    IN  IF stderr # <<>>
        THEN output \o Separator \o Strip(stderr)
        ELSE output

format_output(stdout, stderr) ==
    LET output == IF stdout # <<>> THEN Strip(stdout) ELSE <<>>
    IN  IF stderr # <<>>
        THEN IF output # <<>> THEN output \o Separator \o Strip(stderr)
             ELSE Strip(stderr)
        ELSE output

\* the register handler is not under study
ExIdle ==
    /\ ex_pc = "idle"
    /\ ex_stdout = <<>>
    /\ ex_stderr = <<>>
    /\ ex_output = <<>>
    /\ ex_pattern = 0
    /\ ex_seq = None

(***************************************************************************)
(* run_command (app.py 78-108): subprocess.run with shell=True starts one  *)
(* /bin/bash, communicate() reads its pipes up to the timeout; on          *)
(* TimeoutExpired subprocess.run kills and reaps that bash (and only it)   *)
(* and re-raises.                                                          *)
(***************************************************************************)
\* timeout=120 (seconds)
timeout == 120
\* seconds of one step of the clock
Tick == 60
\* processes one shell may start
MaxDesc == 2

S_timed_out == <<"C", "o", "m", "m", "a", "n", "d", " ", "t", "i", "m", "e", "d", " ", "o", "u", "t">>
S_spawn_error == <<"[", "E", "r", "r", "n", "o", " ", "2", "]", " ", "N", "o", " ", "s", "u", "c", "h", " ", "f", "i", "l", "e">>
S_see_cose == <<"s", "e", "e", " ", "2", ".", "2", "6", ".", "c", "o", "s", "e">>
S_warn == <<"w", "a", "r", "n">>
S_failed == <<"E", "r", "r", "o", "r">>

\* lines 99-104
CompletedResult(returncode, stdout, stderr) ==
    [success |-> returncode = 0, stdout |-> stdout, stderr |-> stderr,
     returncode |-> returncode]
\* line 106
TimeoutResult ==
    [success |-> FALSE, stdout |-> <<>>, stderr |-> S_timed_out, returncode |-> -1]
\* line 108
ExceptionResult(message) ==
    [success |-> FALSE, stdout |-> <<>>, stderr |-> message, returncode |-> -1]

NoResult == [success |-> FALSE, stdout |-> <<>>, stderr |-> <<>>, returncode |-> 0]

\* what a command may leave on its pipes and exit with
ExitCodes == {0, 1}
CommandOutputs == {[stdout |-> S_see_cose, stderr |-> S_warn],
                   [stdout |-> <<>>, stderr |-> S_failed]}

\* the commands of the handlers, with or without 'source' in them (line 85)
Commands == {[text |-> "source venv/bin/activate && ./demo/contract/4-register-contract.sh",
              source |-> TRUE],
             [text |-> "./demo/contract/0-install-cli.sh", source |-> FALSE]}

\* line 85-86: the command line handed to /bin/bash -c
ShellCommand(cmd) ==
    IF cmd.source THEN <<"bash", "-c", cmd.text>> ELSE <<cmd.text>>

NoExit == [returncode |-> 0, stdout |-> <<>>, stderr |-> <<>>]

RnIdle ==
    /\ rn_pc = "idle"
    /\ rn_cmd = <<>>
    /\ rn_elapsed = 0
    /\ rn_shell = "none"
    /\ rn_exit = NoExit
    /\ rn_desc = {}
    /\ rn_result = NoResult

\* line 89: Popen starts /bin/bash
RnSpawn(cmd) ==
    /\ rn_pc = "idle"
    /\ rn_pc' = "communicate"
    /\ rn_cmd' = ShellCommand(cmd)
    /\ rn_shell' = "running"
    /\ UNCHANGED <<rn_elapsed, rn_exit, rn_desc, rn_result>>
    /\ UNCHANGED <<exVars, wfVars, dvVars>>

\* line 89 raising something else than TimeoutExpired (no /bin/bash, no cwd):
\* lines 107-108
RnSpawnFails(cmd) ==
    /\ rn_pc = "idle"
    /\ rn_pc' = "return_108"
    /\ rn_cmd' = ShellCommand(cmd)
    /\ rn_result' = ExceptionResult(S_spawn_error)
    /\ UNCHANGED <<rn_elapsed, rn_shell, rn_exit, rn_desc>>
    /\ UNCHANGED <<exVars, wfVars, dvVars>>

\* the shell, or a script it runs, starts a process; it inherits the pipes
\* unless its output is redirected
ShellForks(d, pipes) ==
    /\ rn_shell = "running"
    /\ d \notin {x.id : x \in rn_desc}
    /\ rn_desc' = rn_desc \cup {[id |-> d, pipes |-> pipes]}
    /\ UNCHANGED <<rn_pc, rn_cmd, rn_elapsed, rn_shell, rn_exit, rn_result>>
    /\ UNCHANGED <<exVars, wfVars, dvVars>>

\* a process started by the shell ends
DescendantExits(x) ==
    /\ x \in rn_desc
    /\ rn_desc' = rn_desc \ {x}
    /\ UNCHANGED <<rn_pc, rn_cmd, rn_elapsed, rn_shell, rn_exit, rn_result>>
    /\ UNCHANGED <<exVars, wfVars, dvVars>>

\* the shell exits by itself
ShellExits(returncode, out) ==
    /\ rn_shell = "running"
    /\ rn_shell' = "exited"
    /\ rn_exit' = [returncode |-> returncode, stdout |-> out.stdout, stderr |-> out.stderr]
    /\ UNCHANGED <<rn_pc, rn_cmd, rn_elapsed, rn_desc, rn_result>>
    /\ UNCHANGED <<exVars, wfVars, dvVars>>

\* time passes while communicate() waits
RnTick ==
    /\ rn_pc = "communicate"
    /\ rn_elapsed < timeout
    /\ rn_elapsed' = rn_elapsed + Tick
    /\ UNCHANGED <<rn_pc, rn_cmd, rn_shell, rn_exit, rn_desc, rn_result>>
    /\ UNCHANGED <<exVars, wfVars, dvVars>>

\* communicate() saw end-of-file on both pipes in time and the shell was reaped:
\* lines 99-104
RnCompletes ==
    /\ rn_pc = "communicate"
    /\ rn_elapsed < timeout
    /\ rn_shell = "exited"
    /\ \A x \in rn_desc : ~x.pipes
    /\ rn_shell' = "reaped"
    /\ rn_result' = CompletedResult(rn_exit.returncode, rn_exit.stdout, rn_exit.stderr)
    /\ rn_pc' = "return_99"
    /\ UNCHANGED <<rn_cmd, rn_elapsed, rn_exit, rn_desc>>
    /\ UNCHANGED <<exVars, wfVars, dvVars>>

\* the kill of subprocess.run on TimeoutExpired: SIGKILL to the shell's pid,
\* then wait(); the processes the shell started are not signalled
KillOnTimeout(shell, desc) == [shell |-> "reaped", desc |-> desc]

\* communicate() raised TimeoutExpired: lines 105-106
RnTimesOut ==
    /\ rn_pc = "communicate"
    /\ rn_elapsed >= timeout
    /\ LET after == KillOnTimeout(rn_shell, rn_desc)
       IN  rn_shell' = after.shell /\ rn_desc' = after.desc
    /\ rn_result' = TimeoutResult
    /\ rn_pc' = "return_106"
    /\ UNCHANGED <<rn_cmd, rn_elapsed, rn_exit>>
    /\ UNCHANGED <<exVars, wfVars, dvVars>>

RnNext ==
    \/ \E cmd \in Commands : RnSpawn(cmd)
    \/ \E cmd \in Commands : RnSpawnFails(cmd)
    \/ \E d \in 1..MaxDesc, pipes \in BOOLEAN : ShellForks(d, pipes)
    \/ \E x \in rn_desc : DescendantExits(x)
    \/ \E rc \in ExitCodes, out \in CommandOutputs : ShellExits(rc, out)
    \/ RnTick
    \/ RnCompletes
    \/ RnTimesOut

(***************************************************************************)
(* The session registry and the step handlers (app.py 166-193, 244-535).   *)
(* A handler is one action: the request, the run of its command, whatever  *)
(* the command leaves under /tmp, and the response.                        *)
(***************************************************************************)
\* sessions that may be created in one run
MaxCreate == 2

\* str(uuid.uuid4())[:8]: eight hexadecimal digits of a random token
SessionIds == {"0f8a3c1e", "9b2d47aa"}
Usernames == {"alice", "bob"}
\* sequence_number of a request: missing (None), 0, or a ledger entry
SeqNumbers == {5, 26}
SeqInputs == {None, 0} \cup SeqNumbers

NoneStr == "None"
Absent == "<absent>"
ConfigKeys == {"TDC_USERNAME"}
EmptyConfig == [k \in ConfigKeys |-> Absent]

\* dict.update
DictUpdate(d, e) == [k \in ConfigKeys |-> IF e[k] # Absent THEN e[k] ELSE d[k]]

\* lines 170-178
NewSession(now) ==
    [created |-> now, config |-> EmptyConfig, scenario |-> NoneStr, role |-> NoneStr,
     contract_seq_no |-> None, steps_completed |-> <<>>,
     did_created |-> [tdp |-> FALSE, tdc |-> FALSE]]

\* request bodies of /api/session/<id>/config
ConfigRequests ==
    {[config |-> [k \in ConfigKeys |-> "alice"], scenario |-> "brats", role |-> "tdc"],
     [config |-> EmptyConfig, scenario |-> NoneStr, role |-> NoneStr]}

\* a message built by an f-string: its fixed text and what is formatted into it
NoMsg == [body |-> <<>>, text |-> "", seq |-> None, user |-> ""]
Body(chars) == [NoMsg EXCEPT !.body = chars]
Fixed(text) == [NoMsg EXCEPT !.text = text]

\* a response: the keys of the JSON object, their values, the HTTP status
NoResp == [status |-> 0, keys |-> {}, success |-> FALSE, output |-> NoMsg,
           error |-> NoMsg, sequence_number |-> None, session_id |-> "",
           did_url |-> ""]
NoReq == [step |-> "", seq |-> None, user |-> "", session_id |-> ""]

\* what run_command may return to a handler (lines 99-108)
RunResults ==
    {CompletedResult(rc, o.stdout, o.stderr) : rc \in ExitCodes, o \in CommandOutputs}
        \cup {TimeoutResult}

\* format_output(result), and the sequence number lines 352-368 take from it,
\* for each of these results
Formatted == [result \in RunResults |-> format_output(result.stdout, result.stderr)]
Extracted == [result \in RunResults |-> ExtractSeqNo(Formatted[result])]

\* the return of a handler that only reports its command: lines 400-403, 445-448, 491-494
StepResult(result) ==
    [NoResp EXCEPT !.status = 200, !.keys = {"success", "output"},
                   !.success = result.success,
                   !.output = Body(Formatted[result])]

\* `if not seq_no`
Falsy(seq_no) == seq_no = None \/ seq_no = 0

WfIdle ==
    /\ sessions = << >>
    /\ wf_now = 0
    /\ wf_cose = {}
    /\ wf_did = {}
    /\ wf_req = NoReq
    /\ wf_resp = NoResp
    /\ wf_ran = <<>>

\* POST /api/session (lines 166-179)
create_session(session_id) ==
    /\ wf_now < MaxCreate
    /\ wf_now' = wf_now + 1
    /\ sessions' = [i \in DOMAIN sessions \cup {session_id} |->
                      IF i = session_id THEN NewSession(wf_now') ELSE sessions[i]]
    /\ wf_req' = [NoReq EXCEPT !.step = "session"]
    /\ wf_resp' = [NoResp EXCEPT !.status = 200, !.keys = {"session_id"},
                                 !.session_id = session_id]
    /\ wf_ran' = <<>>
    /\ UNCHANGED <<wf_cose, wf_did>>
    /\ UNCHANGED <<exVars, rnVars, dvVars>>

\* an update of the configuration that would also note the step in the record
update_config_noting_step(session_id, data) ==
    /\ wf_req' = [NoReq EXCEPT !.step = "config", !.session_id = session_id]
    /\ wf_ran' = <<>>
    /\ IF session_id \notin DOMAIN sessions
       THEN /\ wf_resp' = [NoResp EXCEPT !.status = 404, !.keys = {"error"},
                                        !.error = Fixed("Session not found")]
            /\ UNCHANGED sessions
       ELSE /\ sessions' = [sessions EXCEPT
                              ![session_id].config = DictUpdate(@, data.config),
                              ![session_id].scenario = data.scenario,
                              ![session_id].role = data.role,
                              ![session_id].steps_completed = <<"config">>]
            /\ wf_resp' = [NoResp EXCEPT !.status = 200, !.keys = {"success"},
                                        !.success = TRUE]
    /\ UNCHANGED <<wf_now, wf_cose, wf_did>>
    /\ UNCHANGED <<exVars, rnVars, dvVars>>

\* POST /api/session/<session_id>/config (lines 182-193)
update_config(session_id, data) ==
    /\ wf_req' = [NoReq EXCEPT !.step = "config", !.session_id = session_id]
    /\ wf_ran' = <<>>
    /\ IF session_id \notin DOMAIN sessions
       THEN /\ wf_resp' = [NoResp EXCEPT !.status = 404, !.keys = {"error"},
                                        !.error = Fixed("Session not found")]
            /\ UNCHANGED sessions
       ELSE /\ sessions' = [sessions EXCEPT
                              ![session_id].config = DictUpdate(@, data.config),
                              ![session_id].scenario = data.scenario,
                              ![session_id].role = data.role]
            /\ wf_resp' = [NoResp EXCEPT !.status = 200, !.keys = {"success"},
                                        !.success = TRUE]
    /\ UNCHANGED <<wf_now, wf_cose, wf_did>>
    /\ UNCHANGED <<exVars, rnVars, dvVars>>

\* the handlers that run one script and return its formatted output:
\* install_cli, contract_setup, sign_contract_tdp, view_receipt, validate
PlainSteps == {"install-cli", "validate"}
ScriptOf(step) ==
    CASE step = "install-cli" -> "./demo/contract/0-install-cli.sh"
      [] step = "validate" -> "./demo/contract/6-validate.sh"
      [] step = "register-contract-tdp" -> "./demo/contract/4-register-contract.sh"
      [] step = "create-did-tdc" -> "./demo/contract/7-create-did.sh"
      [] step = "retrieve-contract" -> "./demo/contract/8-retrieve-contract.sh"
      [] step = "sign-contract-tdc" -> "./demo/contract/9-sign-contract.sh"
      [] step = "register-contract-tdc" -> "./demo/contract/10-register-contract.sh"

\* one call of run_command: the script, its argument, whether it succeeded
Cmd(step, seq, result) ==
    [script |-> ScriptOf(step), arg |-> seq, success |-> result.success]

plain_step(step, result) ==
    /\ wf_req' = [NoReq EXCEPT !.step = step]
    /\ wf_ran' = <<Cmd(step, None, result)>>
    /\ wf_resp' = StepResult(result)
    /\ UNCHANGED <<sessions, wf_now, wf_cose, wf_did>>
    /\ UNCHANGED <<exVars, rnVars, dvVars>>

\* lines 336-374 and 497-535 (the two handlers have the same body)
RegisterSteps == {"register-contract-tdp", "register-contract-tdc"}

register_contract(step, result) ==
    /\ wf_req' = [NoReq EXCEPT !.step = step]
    /\ wf_ran' = <<Cmd(step, None, result)>>
    /\ LET output == Formatted[result]
           seq_no == Extracted[result]
       IN  wf_resp' = [NoResp EXCEPT !.status = 200,
                           !.keys = {"success", "output", "sequence_number"},
                           !.success = result.success,
                           !.output = Body(output),
                           !.sequence_number = seq_no]
    /\ UNCHANGED <<sessions, wf_now, wf_cose, wf_did>>
    /\ UNCHANGED <<exVars, rnVars, dvVars>>

\* lines 407-420; the script may write /tmp/<TDC_USERNAME>/did.json
create_did_tdc(user, result, written) ==
    /\ wf_req' = [NoReq EXCEPT !.step = "create-did-tdc", !.user = user]
    /\ wf_ran' = <<Cmd("create-did-tdc", None, result)>>
    /\ wf_did' = IF written THEN wf_did \cup {user} ELSE wf_did
    /\ wf_resp' = [NoResp EXCEPT !.status = 200,
                       !.keys = {"success", "output", "did_url"},
                       !.success = result.success,
                       !.output = Body(Formatted[result]),
                       !.did_url = user]
    /\ UNCHANGED <<sessions, wf_now, wf_cose>>
    /\ UNCHANGED <<exVars, rnVars, dvVars>>

\* the f-strings of lines 438-441 and 464-478 (blank lines written as spaces)
MsgNotFoundAfter == "Warning: Expected contract file /tmp/contracts/2.{seq_no}.cose was not found after retrieval."
MsgCoseMissing == "Contract file not found: /tmp/contracts/2.{seq_no}.cose Please ensure you've retrieved the contract first (step 5.5)."
MsgCoseMissingOutput == "Error: Contract file 2.{seq_no}.cose not found in /tmp/contracts/ Make sure you: 1. Retrieved the contract with sequence number {seq_no} 2. The retrieve step completed successfully"
MsgDidMissing == "TDC DID not found: /tmp/{tdc_username}/did.json Please create the TDC DID first (step 4)."
MsgDidMissingOutput == "Error: DID file not found at /tmp/{tdc_username}/did.json Make sure you've created the DID for TDC in step 4."

\* Path.exists(): the file named by `key` is among the files there are
Exists(key, files) == key \in files

\* lines 430-431 and 458-459
SeqRequired ==
    [NoResp EXCEPT !.status = 400, !.keys = {"error"},
                   !.error = Fixed("Sequence number required")]

\* lines 439-442
NotFoundAfter(seq_no, result) ==
    [NoResp EXCEPT !.status = 200, !.keys = {"success", "output"},
                   !.success = FALSE,
                   !.output = [body |-> Formatted[result], text |-> MsgNotFoundAfter,
                               seq |-> seq_no, user |-> ""]]

\* a retrieve handler that would report its command and look at no file
RetrieveResponseUnchecked(seq_no, result, cose) == StepResult(result)

\* lines 436-448: the response, the command having returned `result` and left
\* the files `cose`
RetrieveResponse(seq_no, result, cose) ==
    IF result.success /\ ~Exists(seq_no, cose)
    THEN NotFoundAfter(seq_no, result)
    ELSE StepResult(result)

\* lines 423-448; the script may write /tmp/contracts/2.<seq_no>.cose
retrieve_contract(seq_no) ==
    /\ wf_req' = [NoReq EXCEPT !.step = "retrieve-contract", !.seq = seq_no]
    /\ IF Falsy(seq_no)
       THEN /\ wf_ran' = <<>>
            /\ wf_resp' = SeqRequired
            /\ UNCHANGED wf_cose
       ELSE \E result \in RunResults, written \in BOOLEAN :
              /\ wf_ran' = <<Cmd("retrieve-contract", seq_no, result)>>
              /\ wf_cose' = IF written THEN wf_cose \cup {seq_no} ELSE wf_cose
              /\ wf_resp' = RetrieveResponse(seq_no, result, wf_cose')
    /\ UNCHANGED <<sessions, wf_now, wf_did>>
    /\ UNCHANGED <<exVars, rnVars, dvVars>>

\* lines 463-468
CoseMissing(seq_no) ==
    [NoResp EXCEPT !.status = 400, !.keys = {"success", "error", "output"},
                   !.success = FALSE,
                   !.error = [NoMsg EXCEPT !.text = MsgCoseMissing, !.seq = seq_no],
                   !.output = [NoMsg EXCEPT !.text = MsgCoseMissingOutput,
                                            !.seq = seq_no]]

\* lines 474-478
DidMissing(user) ==
    [NoResp EXCEPT !.status = 400, !.keys = {"success", "error", "output"},
                   !.success = FALSE,
                   !.error = [NoMsg EXCEPT !.text = MsgDidMissing, !.user = user],
                   !.output = [NoMsg EXCEPT !.text = MsgDidMissingOutput,
                                            !.user = user]]

\* a sign handler that would not look for did.json
SignRefusalSkipsDid(seq_no, user, cose, did) ==
    IF Falsy(seq_no) THEN SeqRequired
    ELSE IF ~Exists(seq_no, cose) THEN CoseMissing(seq_no)
    ELSE NoResp

\* lines 458-478: the early return of the handler, NoResp when there is none
SignRefusal(seq_no, user, cose, did) ==
    IF Falsy(seq_no) THEN SeqRequired
    ELSE IF ~Exists(seq_no, cose) THEN CoseMissing(seq_no)
    ELSE IF ~Exists(user, did) THEN DidMissing(user)
    ELSE NoResp

\* lines 451-494 (lines 483-489 build a message that is not returned)
sign_contract_tdc(seq_no, user) ==
    /\ wf_req' = [NoReq EXCEPT !.step = "sign-contract-tdc", !.seq = seq_no,
                                !.user = user]
    /\ LET refusal == SignRefusal(seq_no, user, wf_cose, wf_did)
       IN  IF refusal # NoResp
           THEN /\ wf_ran' = <<>>
                /\ wf_resp' = refusal
           ELSE \E result \in RunResults :
                  /\ wf_ran' = <<Cmd("sign-contract-tdc", seq_no, result)>>
                  /\ wf_resp' = StepResult(result)
    /\ UNCHANGED <<sessions, wf_now, wf_cose, wf_did>>
    /\ UNCHANGED <<exVars, rnVars, dvVars>>

\* something else removes an artifact under /tmp
ArtifactRemoved ==
    /\ \/ \E n \in wf_cose : wf_cose' = wf_cose \ {n} /\ UNCHANGED wf_did
       \/ \E u \in wf_did : wf_did' = wf_did \ {u} /\ UNCHANGED wf_cose
    /\ UNCHANGED <<sessions, wf_now, wf_req, wf_resp, wf_ran>>
    /\ UNCHANGED <<exVars, rnVars, dvVars>>

(***************************************************************************)
(* github_login_device (app.py 574-664).  The child's stdout is a pipe     *)
(* read through a text wrapper: select() looks at the pipe, readline()     *)
(* moves what the pipe holds into the wrapper's buffer and returns the     *)
(* first complete line of the buffer, waiting for a newline or the end of  *)
(* the stream when there is none.  Times are in milliseconds.              *)
(***************************************************************************)
\* `while time.time() - start_time < 2`
Budget == 2000
\* select(..., 0.05)
SelectSlice == 50
\* how many slices past the deadline the clock is followed
MaxOverrun == 2
\* writes of the child to its stdout
MaxChunks == 2

L_code1 == <<"c", "o", "d", "e", ":", " ", "A", "B", "1", "2", "-", "C", "D", "3", "4">>
L_code2 == <<"O", "n", "e", "-", "T", "i", "m", "e", " ", "C", "o", "d", "e", " ", "W", "X", "Y", "9", "-", "8", "7", "6", "5">>
L_bare == <<"E", "F", "5", "6", "-", "G", "H", "7", "8">>
L_lower == <<"c", "o", "d", "e", ":", " ", "a", "b", "1", "2", "-", "c", "d", "3", "4">>
S_one_time_code == <<"o", "n", "e", "-", "t", "i", "m", "e", " ", "c", "o", "d", "e">>
S_code_colon == <<"c", "o", "d", "e", ":">>

\* one write of the child: some text, then a newline or not; `bad` marks bytes
\* that are not valid UTF-8
Chunks ==
    {[body |-> b, nl |-> n, bad |-> FALSE] :
        b \in {L_code1, L_code2, L_bare, L_lower}, n \in BOOLEAN}
      \cup {[body |-> <<>>, nl |-> TRUE, bad |-> FALSE],
            [body |-> <<>>, nl |-> FALSE, bad |-> TRUE]}

\* lit in line.lower()
InLower(lit, line) == \E i \in 1..Len(line) : LitAt(line, i, lit)

\* line 620
MentionsCode(line) == InLower(S_one_time_code, line) \/ InLower(S_code_colon, line)

\* [A-Z0-9]
UpperAlnum == UpperLetters \cup Digits

\* r'([A-Z0-9]{4}-[A-Z0-9]{4})' matches at i
CodeAt(line, i) ==
    /\ i + 8 <= Len(line)
    /\ \A k \in 0..3 : line[i + k] \in UpperAlnum
    /\ line[i + 4] = "-"
    /\ \A k \in 5..8 : line[i + k] \in UpperAlnum

\* group 1 of re.search(r'([A-Z0-9]{4}-[A-Z0-9]{4})', line), or NoMatch
CodeSearch(line) ==
    LET at == {i \in 1..Len(line) : CodeAt(line, i)}
    IN  IF at = {} THEN NoMatch ELSE SubSeq(line, MinOf(at), MinOf(at) + 8)

\* a scan that would not look for the words first
CodeOfLineUngated(line) == CodeSearch(line)

\* lines 620-623: the code this line yields, or NoMatch
CodeOfLine(line) == IF MentionsCode(line) THEN CodeSearch(line) ELSE NoMatch

\* the text of the chunks before the first newline, and what follows it
RECURSIVE FirstLine(_)
FirstLine(buf) ==
    IF buf = <<>> THEN [found |-> FALSE, line |-> <<>>, rest |-> <<>>]
    ELSE IF Head(buf).nl
         THEN [found |-> TRUE, line |-> Head(buf).body \o <<"\n">>, rest |-> Tail(buf)]
         ELSE LET r == FirstLine(Tail(buf))
              IN  [r EXCEPT !.line = Head(buf).body \o @]

NoDeviceResp == [kind |-> "none", device_code |-> <<>>, output |-> <<>>]

DvIdle ==
    /\ dv_pc = "idle"
    /\ dv_now = 0
    /\ dv_start = 0
    /\ dv_child = "none"
    /\ dv_closed = FALSE
    /\ dv_written = 0
    /\ dv_pipe = <<>>
    /\ dv_rbuf = <<>>
    /\ dv_line = <<>>
    /\ dv_output_lines = <<>>
    /\ dv_device_code = NoMatch
    /\ dv_resp = NoDeviceResp

\* lines 586-606: the child is started and the clock read
DvPopen ==
    /\ dv_pc = "idle"
    /\ dv_child' = "running"
    /\ dv_start' = dv_now
    /\ dv_pc' = "while"
    /\ UNCHANGED <<dv_now, dv_closed, dv_written, dv_pipe, dv_rbuf, dv_line,
                   dv_output_lines, dv_device_code, dv_resp>>
    /\ UNCHANGED <<exVars, rnVars, wfVars>>

\* Popen raises: lines 660-664
DvPopenFails ==
    /\ dv_pc = "idle"
    /\ dv_pc' = "return_661"
    /\ dv_resp' = [NoDeviceResp EXCEPT !.kind = "error"]
    /\ UNCHANGED <<dv_now, dv_start, dv_child, dv_closed, dv_written, dv_pipe,
                   dv_rbuf, dv_line, dv_output_lines, dv_device_code>>
    /\ UNCHANGED <<exVars, rnVars, wfVars>>

\* the child writes to its stdout
ChildWrites(c) ==
    /\ dv_child = "running"
    /\ ~dv_closed
    /\ dv_written < MaxChunks
    /\ dv_written' = dv_written + 1
    /\ dv_pipe' = Append(dv_pipe, c)
    /\ UNCHANGED <<dv_pc, dv_now, dv_start, dv_child, dv_closed, dv_rbuf, dv_line,
                   dv_output_lines, dv_device_code, dv_resp>>
    /\ UNCHANGED <<exVars, rnVars, wfVars>>

\* the child exits by itself; its end of the pipe closes
ChildExits ==
    /\ dv_child = "running"
    /\ dv_child' = "exited"
    /\ dv_closed' = TRUE
    /\ UNCHANGED <<dv_pc, dv_now, dv_start, dv_written, dv_pipe, dv_rbuf, dv_line,
                   dv_output_lines, dv_device_code, dv_resp>>
    /\ UNCHANGED <<exVars, rnVars, wfVars>>

\* line 608
DvWhile ==
    /\ dv_pc = "while"
    /\ dv_pc' = IF dv_now - dv_start < Budget THEN "select" ELSE "cleanup"
    /\ UNCHANGED <<dv_now, dv_start, dv_child, dv_closed, dv_written, dv_pipe,
                   dv_rbuf, dv_line, dv_output_lines, dv_device_code, dv_resp>>
    /\ UNCHANGED <<exVars, rnVars, wfVars>>

\* line 611: the pipe is readable (data, or end of file)
Readable == dv_pipe # <<>> \/ dv_closed

DvSelectReady ==
    /\ dv_pc = "select"
    /\ Readable
    /\ dv_pc' = "readline"
    /\ UNCHANGED <<dv_now, dv_start, dv_child, dv_closed, dv_written, dv_pipe,
                   dv_rbuf, dv_line, dv_output_lines, dv_device_code, dv_resp>>
    /\ UNCHANGED <<exVars, rnVars, wfVars>>

\* line 611: nothing to read for 0.05 s
DvSelectTimeout ==
    /\ dv_pc = "select"
    /\ ~Readable
    /\ dv_now' = dv_now + SelectSlice
    /\ dv_pc' = "while"
    /\ UNCHANGED <<dv_start, dv_child, dv_closed, dv_written, dv_pipe, dv_rbuf,
                   dv_line, dv_output_lines, dv_device_code, dv_resp>>
    /\ UNCHANGED <<exVars, rnVars, wfVars>>

\* line 614: the buffer holds a complete line
DvReadlineReturns ==
    /\ dv_pc = "readline"
    /\ FirstLine(dv_rbuf).found
    /\ dv_line' = FirstLine(dv_rbuf).line
    /\ dv_rbuf' = FirstLine(dv_rbuf).rest
    /\ dv_pc' = "line"
    /\ UNCHANGED <<dv_now, dv_start, dv_child, dv_closed, dv_written, dv_pipe,
                   dv_output_lines, dv_device_code, dv_resp>>
    /\ UNCHANGED <<exVars, rnVars, wfVars>>

\* line 614: no complete line in the buffer, the pipe has data: one read
DvReadlineFills ==
    /\ dv_pc = "readline"
    /\ ~FirstLine(dv_rbuf).found
    /\ dv_pipe # <<>>
    /\ \A k \in 1..Len(dv_pipe) : ~dv_pipe[k].bad
    /\ dv_rbuf' = dv_rbuf \o dv_pipe
    /\ dv_pipe' = <<>>
    /\ UNCHANGED <<dv_pc, dv_now, dv_start, dv_child, dv_closed, dv_written, dv_line,
                   dv_output_lines, dv_device_code, dv_resp>>
    /\ UNCHANGED <<exVars, rnVars, wfVars>>

\* line 614: the bytes read do not decode; the UnicodeDecodeError is caught at
\* line 660
DvReadlineRaises ==
    /\ dv_pc = "readline"
    /\ ~FirstLine(dv_rbuf).found
    /\ \E k \in 1..Len(dv_pipe) : dv_pipe[k].bad
    /\ dv_pipe' = <<>>
    /\ dv_pc' = "return_661"
    /\ dv_resp' = [NoDeviceResp EXCEPT !.kind = "error"]
    /\ UNCHANGED <<dv_now, dv_start, dv_child, dv_closed, dv_written, dv_rbuf,
                   dv_line, dv_output_lines, dv_device_code>>
    /\ UNCHANGED <<exVars, rnVars, wfVars>>

\* line 614: end of file: what is left of the buffer is the last line ('' if
\* nothing is left)
DvReadlineEof ==
    /\ dv_pc = "readline"
    /\ ~FirstLine(dv_rbuf).found
    /\ dv_pipe = <<>>
    /\ dv_closed
    /\ dv_line' = FirstLine(dv_rbuf).line
    /\ dv_rbuf' = <<>>
    /\ dv_pc' = "line"
    /\ UNCHANGED <<dv_now, dv_start, dv_child, dv_closed, dv_written, dv_pipe,
                   dv_output_lines, dv_device_code, dv_resp>>
    /\ UNCHANGED <<exVars, rnVars, wfVars>>

\* line 614: no complete line, an empty pipe, a child that keeps its stdout
\* open: readline() waits
DvReadlineWaits ==
    /\ dv_pc = "readline"
    /\ ~FirstLine(dv_rbuf).found
    /\ dv_pipe = <<>>
    /\ ~dv_closed
    /\ dv_now - dv_start < Budget + MaxOverrun * SelectSlice
    /\ dv_now' = dv_now + SelectSlice
    /\ UNCHANGED <<dv_pc, dv_start, dv_child, dv_closed, dv_written, dv_pipe, dv_rbuf,
                   dv_line, dv_output_lines, dv_device_code, dv_resp>>
    /\ UNCHANGED <<exVars, rnVars, wfVars>>

\* process.kill(); process.wait(timeout=0.5) inside try/except: pass.  A
\* child that has exited is reaped at once; a running one is reaped in time,
\* or the wait times out with the child not yet gone
KillAndWait(child, reaped) ==
    IF child \in {"exited", "reaped"} THEN "reaped"
    ELSE IF reaped THEN "reaped" ELSE "running"

\* lines 615-630
DvLine(reaped) ==
    /\ dv_pc = "line"
    /\ IF dv_line = <<>>
       THEN /\ dv_pc' = "cleanup"
            /\ UNCHANGED <<dv_output_lines, dv_device_code, dv_child, dv_closed>>
       ELSE /\ dv_output_lines' = Append(dv_output_lines, dv_line)
            /\ IF CodeOfLine(dv_line) # NoMatch /\ dv_device_code = NoMatch
               THEN /\ dv_device_code' = CodeOfLine(dv_line)
                    /\ dv_child' = KillAndWait(dv_child, reaped)
                    /\ dv_closed' = (dv_closed \/ dv_child' # "running")
                    /\ dv_pc' = "cleanup"
               ELSE /\ dv_pc' = "while"
                    /\ UNCHANGED <<dv_device_code, dv_child, dv_closed>>
    /\ UNCHANGED <<dv_now, dv_start, dv_written, dv_pipe, dv_rbuf, dv_line, dv_resp>>
    /\ UNCHANGED <<exVars, rnVars, wfVars>>

\* lines 633-638: poll() reaps a child that has exited; one still running is
\* killed
DvCleanup(reaped) ==
    /\ dv_pc = "cleanup"
    /\ dv_child' = IF dv_child = "exited" THEN "reaped"
                   ELSE KillAndWait(dv_child, reaped)
    /\ dv_closed' = (dv_closed \/ dv_child' # "running")
    /\ dv_pc' = "respond"
    /\ UNCHANGED <<dv_now, dv_start, dv_written, dv_pipe, dv_rbuf, dv_line,
                   dv_output_lines, dv_device_code, dv_resp>>
    /\ UNCHANGED <<exVars, rnVars, wfVars>>

\* lines 640-658
DvRespond ==
    /\ dv_pc = "respond"
    /\ IF dv_device_code # NoMatch
       THEN /\ dv_pc' = "return_644"
            /\ dv_resp' = [kind |-> "code", device_code |-> dv_device_code,
                           output |-> dv_output_lines]
       ELSE /\ dv_pc' = "return_654"
            /\ dv_resp' = [kind |-> "not_found", device_code |-> <<>>,
                           output |-> dv_output_lines]
    /\ UNCHANGED <<dv_now, dv_start, dv_child, dv_closed, dv_written, dv_pipe,
                   dv_rbuf, dv_line, dv_output_lines, dv_device_code>>
    /\ UNCHANGED <<exVars, rnVars, wfVars>>

(***************************************************************************)
(* The process runner on its own.                                          *)
(***************************************************************************)
RnInit == RnIdle /\ ExIdle /\ WfIdle /\ DvIdle

SpecRunner == RnInit /\ [][RnNext]_vars

\* C7 (as claimed): when the command exceeds its timeout the runner returns
\* success=false, exitCode=-1, stderr 'Command timed out' and empty stdout, and
\* at that moment no process started for the command (the shell or anything it
\* launched) is still alive.
C7_TimeoutLeavesNoProcess ==
    rn_pc = "return_106" =>
        /\ rn_result.success = FALSE
        /\ rn_result.returncode = -1
        /\ rn_result.stderr = S_timed_out
        /\ rn_result.stdout = <<>>
        /\ rn_shell \notin {"running", "exited"}
        /\ rn_desc = {}

(***************************************************************************)
(* The step handlers on their own: any request at any time.                *)
(***************************************************************************)
WfInit == WfIdle /\ ExIdle /\ RnIdle /\ DvIdle

WfNext ==
    \/ \E session_id \in SessionIds : create_session(session_id)
    \/ \E session_id \in SessionIds, data \in ConfigRequests :
          update_config(session_id, data)
    \/ \E step \in PlainSteps, result \in RunResults : plain_step(step, result)
    \/ \E step \in RegisterSteps, result \in RunResults : register_contract(step, result)
    \/ \E user \in Usernames, result \in RunResults, written \in BOOLEAN :
          create_did_tdc(user, result, written)
    \/ \E seq_no \in SeqInputs : retrieve_contract(seq_no)
    \/ \E seq_no \in SeqInputs, user \in Usernames : sign_contract_tdc(seq_no, user)
    \/ ArtifactRemoved

Spec == WfInit /\ [][WfNext]_vars

\* a step in which the handler of `step` answered a request: anything but the
\* removal of an artifact
Handled(step) ==
    /\ wf_req'.step = step
    /\ \/ <<wf_req, wf_resp, wf_ran, sessions, wf_now>>' #
             <<wf_req, wf_resp, wf_ran, sessions, wf_now>>
       \/ ~(wf_cose' \subseteq wf_cose)
       \/ ~(wf_did' \subseteq wf_did)

\* C1 (as claimed): after a register step whose command succeeded and whose
\* formatted output yielded an identifier n, the sequence number of the
\* session is n (stated for any session of the registry, the request carrying
\* no session).
C1_RegisterSetsSessionSequenceNumber ==
    ( /\ wf_req.step \in RegisterSteps
      /\ wf_resp.success
      /\ wf_resp.sequence_number # None
      /\ DOMAIN sessions # {} )
        => \E session_id \in DOMAIN sessions :
              sessions[session_id].contract_seq_no = wf_resp.sequence_number

\* C2 (as claimed): retrieve called with a sequence number n whose file
\* 2.n.cose does not exist fails naming 2.n.cose, without any call of the
\* process runner.
C2_MissingArtifactBlocksRetrieve ==
    [][ ( /\ Handled("retrieve-contract")
          /\ ~Falsy(wf_req'.seq)
          /\ wf_req'.seq \notin wf_cose )
            => /\ wf_ran' = <<>>
               /\ wf_resp'.success = FALSE
               /\ wf_resp'.output.seq = wf_req'.seq \/ wf_resp'.error.seq = wf_req'.seq
      ]_vars

\* C2 (amended): retrieve called with a sequence number n always runs its
\* command, once, with n; only when the command succeeded and 2.n.cose does not
\* exist afterwards is the result a failure whose output names 2.n.cose;
\* otherwise the result is the command's own outcome and names no file.
C2_RetrieveRunsThenChecks ==
    [][ ( /\ Handled("retrieve-contract")
          /\ ~Falsy(wf_req'.seq) )
            => /\ Len(wf_ran') = 1
               /\ wf_ran'[1].script = "./demo/contract/8-retrieve-contract.sh"
               /\ wf_ran'[1].arg = wf_req'.seq
               /\ "success" \in wf_resp'.keys
               /\ IF wf_ran'[1].success /\ wf_req'.seq \notin wf_cose'
                  THEN /\ wf_resp'.success = FALSE
                       /\ wf_resp'.output.text = MsgNotFoundAfter
                       /\ wf_resp'.output.seq = wf_req'.seq
                  ELSE /\ wf_resp'.success = wf_ran'[1].success
                       /\ wf_resp'.output.text = ""
                       /\ wf_resp'.output.seq = None
      ]_vars

\* the command of retrieve succeeded, 2.n.cose is not there, the result is the
\* failure naming it
C2_Witness ==
    /\ wf_req.step = "retrieve-contract"
    /\ wf_req.seq \in SeqNumbers
    /\ wf_req.seq \notin wf_cose
    /\ Len(wf_ran) = 1
    /\ wf_ran[1].success
    /\ wf_resp.success = FALSE
    /\ wf_resp.output.seq = wf_req.seq

\* C3 (as claimed): sign(consumer) runs its command only if a sequence number
\* was supplied and 2.<seq>.cose and did.json exist; if any of the three is
\* missing the result is success=false with a message naming the missing
\* artifact and the step that produces it, and nothing is run.
C3_AnyMissingInputNamesArtifactAndStep ==
    [][ Handled("sign-contract-tdc")
          => /\ wf_ran' # <<>> =>
                  /\ ~Falsy(wf_req'.seq)
                  /\ wf_req'.seq \in wf_cose
                  /\ wf_req'.user \in wf_did
             /\ ( \/ Falsy(wf_req'.seq)
                  \/ wf_req'.seq \notin wf_cose
                  \/ wf_req'.user \notin wf_did )
                  => /\ wf_ran' = <<>>
                     /\ "success" \in wf_resp'.keys
                     /\ wf_resp'.success = FALSE
                     /\ wf_resp'.error.text \in {MsgCoseMissing, MsgDidMissing}
      ]_vars

\* C3 (amended): sign(consumer) runs its command exactly when a non-zero
\* sequence number was supplied and 2.<seq>.cose and did.json exist at the time
\* of the check.  A missing file gives status 400 and success=false with a
\* message naming the file and the step that produces it (2.<seq>.cose, step
\* 5.5; did.json, step 4), the contract file being looked for first.  A missing
\* or zero sequence number gives status 400 and the only key 'error', with the
\* text 'Sequence number required'.  A refused request runs nothing and changes
\* nothing, and the handler accepts any request in any state.
C3_SignChecksBeforeRunning ==
    /\ [][ Handled("sign-contract-tdc")
             => /\ wf_ran' # <<>> <=>
                     /\ ~Falsy(wf_req'.seq)
                     /\ wf_req'.seq \in wf_cose
                     /\ wf_req'.user \in wf_did
                /\ wf_ran' # <<>> =>
                     /\ Len(wf_ran') = 1
                     /\ wf_ran'[1].arg = wf_req'.seq
                     /\ wf_resp'.success = wf_ran'[1].success
                /\ Falsy(wf_req'.seq) =>
                     /\ wf_resp'.status = 400
                     /\ wf_resp'.keys = {"error"}
                     /\ wf_resp'.error = Fixed("Sequence number required")
                /\ (~Falsy(wf_req'.seq) /\ wf_req'.seq \notin wf_cose) =>
                     /\ wf_resp'.status = 400
                     /\ "success" \in wf_resp'.keys
                     /\ wf_resp'.success = FALSE
                     /\ wf_resp'.error.text = MsgCoseMissing
                     /\ wf_resp'.error.seq = wf_req'.seq
                /\ ( /\ ~Falsy(wf_req'.seq)
                     /\ wf_req'.seq \in wf_cose
                     /\ wf_req'.user \notin wf_did ) =>
                     /\ wf_resp'.status = 400
                     /\ "success" \in wf_resp'.keys
                     /\ wf_resp'.success = FALSE
                     /\ wf_resp'.error.text = MsgDidMissing
                     /\ wf_resp'.error.user = wf_req'.user
                /\ UNCHANGED <<sessions, wf_now, wf_cose, wf_did>>
         ]_vars
    /\ [](\A seq_no \in SeqInputs, user \in Usernames :
             ENABLED sign_contract_tdc(seq_no, user))

\* sign was refused for a did.json that is not there, the contract file being
\* there
C3_Witness ==
    /\ wf_req.step = "sign-contract-tdc"
    /\ wf_req.seq \in wf_cose
    /\ wf_req.user \notin wf_did
    /\ wf_ran = <<>>
    /\ wf_resp.success = FALSE
    /\ wf_resp.error.text = MsgDidMissing

(***************************************************************************)
(* The device-authorization routine on its own, with its child.            *)
(***************************************************************************)
DvInit == DvIdle /\ ExIdle /\ RnIdle /\ WfIdle

DvNext ==
    \/ DvPopen
    \/ DvPopenFails
    \/ \E c \in Chunks : ChildWrites(c)
    \/ ChildExits
    \/ DvWhile
    \/ DvSelectReady
    \/ DvSelectTimeout
    \/ DvReadlineReturns
    \/ DvReadlineFills
    \/ DvReadlineRaises
    \/ DvReadlineEof
    \/ DvReadlineWaits
    \/ \E reaped \in BOOLEAN : DvLine(reaped)
    \/ \E reaped \in BOOLEAN : DvCleanup(reaped)
    \/ DvRespond

SpecDevice == DvInit /\ [][DvNext]_vars

DvReturned == dv_pc \in {"return_644", "return_654", "return_661"}

\* C4 (as claimed): when the routine returns, on every path, the child it
\* started is not running any more.
C4_ChildNotRunningAtReturn ==
    DvReturned => dv_child # "running"

\* C5 (as claimed): the routine is out of its reading loop within its budget
\* of 2 seconds (one slice of select being allowed on top): no read keeps it
\* past the deadline.
C5_LoopEndsWithinBudget ==
    dv_pc \in {"while", "select", "readline", "line"}
        => dv_now - dv_start < Budget + SelectSlice

\* C6 (as claimed): every line read is in the output and is scanned for the
\* pattern; when the routine ends its loop, if one of these lines holds a code
\* the result is the code found, a code of one of these lines, and otherwise
\* the not-found result.
C6_EveryLineScanned ==
    dv_pc \in {"return_644", "return_654"} =>
        IF \E k \in 1..Len(dv_output_lines) : CodeSearch(dv_output_lines[k]) # NoMatch
        THEN /\ dv_resp.kind = "code"
             /\ \E k \in 1..Len(dv_output_lines) :
                   dv_resp.device_code = CodeSearch(dv_output_lines[k])
        ELSE dv_resp.kind = "not_found"

\* a line that is searched: it mentions the code and the pattern is in it
Scanned(line) == MentionsCode(line) /\ CodeSearch(line) # NoMatch

\* C6 (amended): every line the routine reads is appended to the output, and
\* a line is searched for the pattern (four characters of A-Z and 0-9, a
\* hyphen, four more) only if it contains 'one-time code' or 'code:', in any
\* case.  The routine returns the code-found result exactly when the last line
\* it read is the first such line with the pattern in it, and the code is the
\* leftmost match of that line; it returns the not-found result when it left
\* the loop with no such line read; an exception gives a third result, the
\* error, with neither code nor output.
C6_KeywordLinesScanned ==
    /\ (dv_pc # "line" /\ dv_line # <<>>) =>
          /\ Len(dv_output_lines) > 0
          /\ dv_output_lines[Len(dv_output_lines)] = dv_line
    /\ dv_pc = "return_644" =>
          /\ dv_resp.kind = "code"
          /\ dv_resp.output = dv_output_lines
          /\ Len(dv_output_lines) > 0
          /\ Scanned(dv_output_lines[Len(dv_output_lines)])
          /\ dv_resp.device_code = CodeSearch(dv_output_lines[Len(dv_output_lines)])
          /\ \A k \in 1..(Len(dv_output_lines) - 1) : ~Scanned(dv_output_lines[k])
    /\ dv_pc = "return_654" =>
          /\ dv_resp.kind = "not_found"
          /\ dv_resp.output = dv_output_lines
          /\ \A k \in 1..Len(dv_output_lines) : ~Scanned(dv_output_lines[k])
    /\ dv_pc = "return_661" => dv_resp = [NoDeviceResp EXCEPT !.kind = "error"]

\* the code was found on the second line read
C6_Witness ==
    /\ dv_pc = "return_644"
    /\ Len(dv_output_lines) = 2
    /\ dv_resp.device_code # NoMatch

(***************************************************************************)
(* Texts the external commands may print: concatenations of fragments.     *)
(***************************************************************************)
MaxFrags == 3

Fragments == {<<".">>, <<"5">>, <<"2", "6">>, S_cose, S_entry, S_submitted,
              S_sequence, <<":">>, <<" ">>, <<"x">>}

RECURSIVE TextsUpTo(_)
TextsUpTo(n) == IF n = 0 THEN {<<>>}
                ELSE LET shorter == TextsUpTo(n - 1)
                     IN  shorter \cup {t \o f : t \in shorter, f \in Fragments}

StdoutTexts == TextsUpTo(MaxFrags)

StderrTexts == {<<>>, <<"\n">>, <<" ", "2", "6", "\n">>,
                <<"S", "e", "q", "N", "o", ":", " ", "2", "6">>}

(***************************************************************************)
(* The register handlers as a function of the command's result: lines      *)
(* 343-368 and 504-529 (the two handlers have the same body).              *)
(***************************************************************************)
ExInit ==
    /\ RnIdle
    /\ WfIdle
    /\ DvIdle
    /\ ex_pc = "run"
    /\ ex_stdout \in StdoutTexts
    /\ ex_stderr \in StderrTexts
    /\ ex_output = <<>>
    /\ ex_pattern = 0
    /\ ex_seq = None

\* output = format_output(result)
ExFormat ==
    /\ ex_pc = "run"
    /\ ex_output' = format_output(ex_stdout, ex_stderr)
    /\ ex_pc' = "format"
    /\ UNCHANGED <<ex_stdout, ex_stderr, ex_pattern, ex_seq>>
    /\ UNCHANGED <<rnVars, wfVars, dvVars>>

\* seq_no = None; for pattern in patterns: ...
ExExtract ==
    /\ ex_pc = "format"
    /\ LET taken == ExtractLoop(ex_output, 1)
       IN  ex_pattern' = taken.pattern /\ ex_seq' = taken.seq_no
    /\ ex_pc' = "extract"
    /\ UNCHANGED <<ex_stdout, ex_stderr, ex_output>>
    /\ UNCHANGED <<rnVars, wfVars, dvVars>>

ExNext == ExFormat \/ ExExtract

SpecExtract == ExInit /\ [][ExNext]_vars

(***************************************************************************)
(* Claims about the extraction, checked under SpecExtract.                 *)
(***************************************************************************)
\* the numbers n of the substrings ".<n>.cose" of t
CoseNumbers(t) ==
    {ToInt(Slice(t, i + 1, j)) : <<i, j>> \in
        {p \in (1..Len(t)) \X (1..Len(t)) :
            /\ p[1] < p[2]
            /\ t[p[1]] = "."
            /\ \A k \in (p[1] + 1)..p[2] : IsDigit(t[k])
            /\ p[2] + Len(S_cose) <= Len(t)
            /\ SubSeq(t, p[2] + 1, p[2] + Len(S_cose)) = S_cose}}

\* C8 (as claimed): for every text containing a substring ".<n>.cose" the
\* extraction returns n, whatever the magnitude of n and whatever other numbers
\* the text contains.
C8_CoseNumberAlwaysReturned ==
    ex_pc = "extract" => \A n \in CoseNumbers(ex_output) : ex_seq = n

\* group 1 of each pattern on the output
Groups == [j \in 1..NumPatterns |-> PatternMatch(ex_output, j)]
\* pattern j matched, with this candidate
Matched(g, j) == g[j] # NoMatch
Candidate(g, j) == ToInt(g[j])

HasDigitRun(t) == \E i \in 1..(Len(t) - 1) : IsDigit(t[i]) /\ IsDigit(t[i + 1])

\* C10 (as claimed): the fallback accepts any run of two or more digits anywhere
\* in the text, so the extraction returns null only if the text has no such run.
C10_NullOnlyWithoutDigitRun ==
    (ex_pc = "extract" /\ ex_seq = None) => ~HasDigitRun(ex_output)

\* the digits i..j of t are a run of two or more digits with no letter, digit
\* or underscore next to it on either side
DelimitedRun(t, i, j) ==
    /\ j - i + 1 >= 2
    /\ \A k \in i..j : IsDigit(t[k])
    /\ i = 1 \/ ~IsWord(t[i - 1])
    /\ j = Len(t) \/ ~IsWord(t[j + 1])

DelimitedRuns(t) ==
    LET ds == {i \in 1..Len(t) : IsDigit(t[i])}
    IN  {p \in ds \X ds : DelimitedRun(t, p[1], p[2])}

\* C10 (amended): when patterns 1-5 give no accepted candidate, the fallback
\* takes the leftmost run of two or more digits that has no letter, digit or
\* underscore next to it; the extraction returns null only if the text has no
\* such delimited run.
C10_NullOnlyWithoutDelimitedRun ==
    ex_pc = "extract" =>
        LET g == Groups
            runs == DelimitedRuns(ex_output)
        IN  /\ ex_seq = None => runs = {}
            /\ ((\A j \in 1..5 : ~(Matched(g, j) /\ AcceptCandidate(j, Candidate(g, j))))
                  /\ runs # {}) =>
                  /\ ex_pattern = 6
                  /\ \E p \in runs :
                        /\ \A q \in runs : p[1] <= q[1]
                        /\ ex_seq = ToInt(Slice(ex_output, p[1], p[2]))

\* C10 witness: a pattern among 1-5 matched without being accepted and the
\* fallback supplied the number.
C10_Witness ==
    /\ ex_pc = "extract"
    /\ ex_pattern = 6
    /\ \E j \in 1..5 : Matched(Groups, j)

\* t has digits, and each of them stands alone: no two digits are adjacent
OnlySingleDigits(t) ==
    /\ \E i \in 1..Len(t) : IsDigit(t[i])
    /\ ~HasDigitRun(t)

\* the values of the digits of t
DigitsOf(t) == {ToInt(<<t[i]>>) : i \in {k \in 1..Len(t) : IsDigit(t[k])}}

\* C11 (as claimed): for a text whose only numbers are single digits and in
\* which the '.N.cose' pattern does not match, the fallback accepts one of the
\* digits: the extraction returns one of these small numbers, not null.
C11_FallbackTakesSingleDigit ==
    ( /\ ex_pc = "extract"
      /\ OnlySingleDigits(ex_output)
      /\ ~Matched(Groups, 1) )
        => /\ ex_seq # None
           /\ ex_seq \in DigitsOf(ex_output)

\* C11 (amended): for a text whose only numbers are single digits and in
\* which the '.N.cose' pattern does not match, every candidate of the patterns
\* 2-5 is below 10 and is rejected, and the fallback, which asks for two digits
\* or more, does not match: the extraction returns null.
C11_SingleDigitsGiveNull ==
    ( /\ ex_pc = "extract"
      /\ OnlySingleDigits(ex_output)
      /\ ~Matched(Groups, 1) )
        => /\ \A j \in 2..5 : Matched(Groups, j) => Candidate(Groups, j) < 10
           /\ ~Matched(Groups, 6)
           /\ ex_pattern = 0
           /\ ex_seq = None

\* C11 witness: a single digit was the candidate of one of the patterns 2-5
\* and the extraction went through the whole list
C11_Witness ==
    /\ ex_pc = "extract"
    /\ OnlySingleDigits(ex_output)
    /\ ~Matched(Groups, 1)
    /\ \E j \in 2..5 : Matched(Groups, j)
    /\ ex_seq = None

\* s without the white space at its two ends
Trimmed(s) ==
    LET solid == {i \in 1..Len(s) : ~IsSpace(s[i])}
    IN  IF solid = {} THEN <<>>
        ELSE SubSeq(s, MinOf(solid), CHOOSE i \in solid : \A k \in solid : k <= i)

\* lit is a part of t
Occurs(lit, t) ==
    \E i \in 1..(Len(t) - Len(lit) + 1) : SubSeq(t, i, i + Len(lit) - 1) = lit

\* C12 (as claimed): the formatted output is stdout alone when stderr is
\* empty, and stdout, the separator and stderr whenever stderr is not empty:
\* the separator is in the output exactly when stderr is not empty (the white
\* space the formatter strips from the ends of the two texts being granted).
C12_SeparatorIffStderr ==
    ex_pc \in {"format", "extract"} =>
        /\ ex_output = IF ex_stderr = <<>> THEN Trimmed(ex_stdout)
                       ELSE Trimmed(ex_stdout) \o Separator \o Trimmed(ex_stderr)
        /\ Occurs(Separator, ex_output) <=> ex_stderr # <<>>

\* C12 (amended): the formatted output is a function of stdout and stderr
\* only.  Both texts are stripped of the white space at their ends.  The output
\* is the stripped stdout when stderr is empty; when stderr is not empty it is
\* the stripped stdout, the separator and the stripped stderr if the stripped
\* stdout is not empty, and the stripped stderr alone if it is: with these
\* texts the separator is in the output exactly when stderr is not empty and
\* stdout has a character that is not white space.
C12_SeparatorIffBothTexts ==
    ex_pc \in {"format", "extract"} =>
        /\ ex_output =
              IF ex_stderr = <<>> THEN Trimmed(ex_stdout)
              ELSE IF Trimmed(ex_stdout) = <<>> THEN Trimmed(ex_stderr)
              ELSE Trimmed(ex_stdout) \o Separator \o Trimmed(ex_stderr)
        /\ Occurs(Separator, ex_output) <=>
              (ex_stderr # <<>> /\ Trimmed(ex_stdout) # <<>>)

\* C12 witness: stderr alone, with no separator before it
C12_Witness ==
    /\ ex_pc = "format"
    /\ ex_stderr # <<>>
    /\ Trimmed(ex_stdout) = <<>>
    /\ ex_output # <<>>
    /\ ~Occurs(Separator, ex_output)

\* C13 (as claimed): an operation on one session never changes the record of
\* another session that exists; a creation gives an identifier that no
\* existing session has and resets no existing record.
C13_SessionsIndependent ==
    [][ /\ Handled("session") =>
              /\ wf_resp'.session_id \notin DOMAIN sessions
              /\ \A id \in DOMAIN sessions :
                    id \in DOMAIN sessions' /\ sessions'[id] = sessions[id]
        /\ Handled("config") =>
              \A id \in DOMAIN sessions \ {wf_req'.session_id} :
                    id \in DOMAIN sessions' /\ sessions'[id] = sessions[id]
        /\ (wf_req'.step \notin {"session", "config"}) => sessions' = sessions
      ]_vars

\* what a step may record in a session: the sequence number, the completed
\* steps, the DID flags
Durable(session) ==
    <<session.contract_seq_no, session.steps_completed, session.did_created>>

\* C14: the sequence number of a session changes only in a registration step
\* that succeeded; every other step (an update of the configuration, of a
\* known session or of an unknown one, which is answered 'Session not found'
\* and changes nothing, a step that is not a registration, a step that failed)
\* leaves the sequence number, the completed steps and the DID flags of every
\* session as they were.
C14_DurableFieldsKept ==
    [][ /\ \A id \in DOMAIN sessions :
              /\ id \in DOMAIN sessions'
              /\ Durable(sessions'[id]) # Durable(sessions[id]) =>
                    (wf_req'.step \in RegisterSteps /\ wf_resp'.success)
        /\ (Handled("config") /\ wf_req'.session_id \notin DOMAIN sessions) =>
              /\ wf_resp'.status = 404
              /\ wf_resp'.error = Fixed("Session not found")
              /\ sessions' = sessions
        /\ (Handled("config") /\ wf_req'.session_id \in DOMAIN sessions) =>
              wf_resp'.success
      ]_vars

\* C14 witness: a session exists, with its configuration set, and the update
\* of an unknown session was answered 'Session not found'
C14_Witness ==
    /\ wf_req.step = "config"
    /\ wf_req.session_id \notin DOMAIN sessions
    /\ wf_resp.status = 404
    /\ \E id \in DOMAIN sessions : sessions[id].scenario # NoneStr

====
